---- MODULE Spec2Model ----
(***************************************************************************)
(* The ownership-scoped CRUD contract of recipe-app-api.                   *)
(*                                                                         *)
(* The database holds three tables (Tag, Ingredient, Recipe) and the two   *)
(* many-to-many relations of Recipe.  Every view of recipe/views.py is a   *)
(* pure function from (database, request) to (database, response); every   *)
(* action of the state machine is one HTTP request handled to completion.  *)
(*                                                                         *)
(* The User table of core/models.py is written by the two methods of       *)
(* UserManager; UserSpec is the state machine of their calls.              *)
(***************************************************************************)
EXTENDS Integers, Sequences, FiniteSets, TLC

\* Rows ever inserted, over the three tables together (their AutoField
\* counters are unbounded).
MaxRows == 2

\* rest_framework.status, as the tests name them.
HTTP_200_OK == 200
HTTP_201_CREATED == 201
HTTP_204_NO_CONTENT == 204
HTTP_400_BAD_REQUEST == 400
HTTP_401_UNAUTHORIZED == 401
HTTP_404_NOT_FOUND == 404

Users == {"u1", "u2"}
AnonymousUser == "AnonymousUser"

\* The two subclasses of BaseRecipeAttrViewSet, named by the Recipe
\* many-to-many field that refers to their model (tags -> Tag,
\* ingredients -> Ingredient).
Kinds == {"tags", "ingredients"}

Names == {"Vegan"}
Titles == {"Nasi goreng"}
Minutes == {10}
Prices == {5, 8}

VARIABLES
    attrs,      \* attrs[k]: pk -> [name, user], the rows of Tag / Ingredient
    recipes,    \* pk -> [title, time_minutes, price, user, tags, ingredients]
    nextId,     \* per table, the next value of its AutoField
    last,       \* the last request handled and the status it got
    users,      \* the rows of User, in the order of their primary keys
    returned    \* what the last call of a UserManager method came to

vars == <<attrs, recipes, nextId, last, users, returned>>

DB == [attrs |-> attrs, recipes |-> recipes, nextId |-> nextId]

Response(db, status, bodies) == [db |-> db, status |-> status, bodies |-> bodies]

\* A body is the sequence of primary keys the response serializes; a list
\* whose order the database leaves open has several admissible bodies.
NoData == {<< >>}

----------------------------------------------------------------------------
\* Python dicts (request payloads, validated_data) are functions whose
\* DOMAIN is the set of keys present.

Opt(key, values) == {<< >>} \cup {key :> v : v \in values}

Only(d, keys) == [k \in DOMAIN d \cap keys |-> d[k]]

Without(table, pk) == [p \in DOMAIN table \ {pk} |-> table[p]]

----------------------------------------------------------------------------
\* Authentication and permission (TokenAuthentication, IsAuthenticated).

Credentials ==
    {[user |-> AnonymousUser, is_active |-> FALSE]}
        \cup [user : Users, is_active : BOOLEAN]

\* A request without a token is anonymous; a token of an inactive user is
\* refused.  Either way no user is set on the request.
authenticate(cred) ==
    IF cred.user \in Users /\ cred.is_active THEN cred.user ELSE AnonymousUser

\* The permission of a view that declares no permission_classes.
AllowAny(user) == TRUE

\* permission_classes = (IsAuthenticated,)
IsAuthenticated(user) == user # AnonymousUser

----------------------------------------------------------------------------
\* order_by('-field'): rows of equal key come in an order the database
\* chooses.

Collation(s) ==
    CASE s = "Bami goreng" -> 1
      [] s = "Nasi goreng" -> 2
      [] s = "Vegan" -> 3
      [] OTHER -> 0

order_by_desc(rows, table, field) ==
    LET n == Cardinality(rows) IN
    {s \in [1..n -> rows] :
        /\ \A i, j \in 1..n : i # j => s[i] # s[j]
        /\ \A i \in 1..n : \A j \in 1..n :
             i < j => Collation(table[s[i]][field]) >= Collation(table[s[j]][field])}

Range(s) == {s[i] : i \in DOMAIN s}

----------------------------------------------------------------------------
\* BaseRecipeAttrViewSet (TagViewSet, IngredientViewSet): list, create,
\* destroy.

\* self.queryset as declared on the class, without the filter on user.
BaseRecipeAttrViewSet_get_queryset_all(db, kind, user) ==
    DOMAIN db.attrs[kind]

\* self.queryset.filter(user=self.request.user); the order is applied by
\* order_by_desc where the rows are listed.
BaseRecipeAttrViewSet_get_queryset(db, kind, user) ==
    {pk \in DOMAIN db.attrs[kind] : db.attrs[kind][pk].user = user}

\* TagSerializer / IngredientSerializer: fields ('id', 'name'), id read-only.
AttrSerializer_validated_data(data) == Only(data, {"name"})

\* name is a CharField: required and not blank.
AttrSerializer_is_valid(data) ==
    "name" \in DOMAIN data /\ data["name"] # ""

\* serializer.save(user=self.request.user): the keyword arguments override
\* the validated data.
BaseRecipeAttrViewSet_perform_create(serializer, user) ==
    [user |-> user] @@ serializer.validated_data

AttrPayloads ==
    {a @@ b : a \in Opt("name", {""} \cup Names), b \in Opt("user", Users)}

AttrList(db, cred, kind) ==
    LET user == authenticate(cred) IN
    IF ~IsAuthenticated(user)
    THEN Response(db, HTTP_401_UNAUTHORIZED, NoData)
    ELSE Response(db, HTTP_200_OK,
                  order_by_desc(BaseRecipeAttrViewSet_get_queryset(db, kind, user),
                                db.attrs[kind], "name"))

\* A create that saves without calling is_valid().
AttrCreateUnvalidated(db, cred, kind, data) ==
    LET user == authenticate(cred)
        pk == db.nextId[kind]
        serializer == [initial_data |-> data,
                       validated_data |-> AttrSerializer_validated_data(data) @@ [name |-> ""]]
        row == BaseRecipeAttrViewSet_perform_create(serializer, user)
    IN
    IF ~IsAuthenticated(user)
    THEN Response(db, HTTP_401_UNAUTHORIZED, NoData)
    ELSE Response([db EXCEPT !.attrs[kind] = (pk :> row) @@ @,
                             !.nextId[kind] = @ + 1],
                  HTTP_201_CREATED, {<<pk>>})

\* CreateModelMixin.create: is_valid(raise_exception=True), perform_create,
\* 201.
AttrCreate(db, cred, kind, data) ==
    LET user == authenticate(cred)
        pk == db.nextId[kind]
        serializer == [initial_data |-> data,
                       validated_data |-> AttrSerializer_validated_data(data)]
        row == BaseRecipeAttrViewSet_perform_create(serializer, user)
    IN
    IF ~IsAuthenticated(user)
    THEN Response(db, HTTP_401_UNAUTHORIZED, NoData)
    ELSE IF ~AttrSerializer_is_valid(data)
    THEN Response(db, HTTP_400_BAD_REQUEST, NoData)
    ELSE Response([db EXCEPT !.attrs[kind] = (pk :> row) @@ @,
                             !.nextId[kind] = @ + 1],
                  HTTP_201_CREATED, {<<pk>>})

\* Deleting a Tag / Ingredient row deletes its rows of the many-to-many
\* join table, and no Recipe.
CascadeDelete(recipeTable, kind, pk) ==
    [r \in DOMAIN recipeTable |->
        [recipeTable[r] EXCEPT ![kind] = @ \ {pk}]]

\* A destroy that deletes the row and leaves the join table as it was.
AttrDestroyRowOnly(db, cred, kind, pk) ==
    LET user == authenticate(cred) IN
    IF ~IsAuthenticated(user)
    THEN Response(db, HTTP_401_UNAUTHORIZED, NoData)
    ELSE IF pk \notin BaseRecipeAttrViewSet_get_queryset(db, kind, user)
    THEN Response(db, HTTP_404_NOT_FOUND, NoData)
    ELSE Response([db EXCEPT !.attrs[kind] = Without(@, pk)],
                  HTTP_204_NO_CONTENT, NoData)

\* DestroyModelMixin.destroy: get_object(), instance.delete(), 204.
AttrDestroy(db, cred, kind, pk) ==
    LET user == authenticate(cred) IN
    IF ~IsAuthenticated(user)
    THEN Response(db, HTTP_401_UNAUTHORIZED, NoData)
    ELSE IF pk \notin BaseRecipeAttrViewSet_get_queryset(db, kind, user)
    THEN Response(db, HTTP_404_NOT_FOUND, NoData)
    ELSE Response([db EXCEPT !.attrs[kind] = Without(@, pk),
                             !.recipes = CascadeDelete(@, kind, pk)],
                  HTTP_204_NO_CONTENT, NoData)

----------------------------------------------------------------------------
\* RecipeViewSet (a ModelViewSet): list, create, retrieve, update,
\* partial_update, destroy.

ScalarFields == {"title", "time_minutes", "price"}

RecipeSerializerFields == ScalarFields \cup Kinds

\* The request as get_queryset sees it: the authenticated user and the
\* query string.
QueryParams(db) ==
    {a @@ b : a \in Opt("tags", SUBSET (DOMAIN db.attrs["tags"]) \ {{}}),
              b \in Opt("ingredients", SUBSET (DOMAIN db.attrs["ingredients"]) \ {{}})}

\* Recipe.objects.all(), without the filter on user.
RecipeViewSet_get_queryset_all(db, user, query_params) ==
    DOMAIN db.recipes

\* self.queryset.filter(user=self.request.user): the query string is not
\* read.
RecipeViewSet_get_queryset(db, user, query_params) ==
    {pk \in DOMAIN db.recipes : db.recipes[pk].user = user}

\* The primary keys a payload may name for the many-to-many field: any
\* set of keys ever handed out, those of rows deleted since included.
IdLists(db, kind) == SUBSET (1..(db.nextId[kind] - 1))

RecipePayloads(db) ==
    {a @@ b @@ c @@ d @@ e :
        a \in Opt("title", Titles),
        b \in Opt("time_minutes", Minutes),
        c \in Opt("price", Prices),
        d \in Opt("tags", IdLists(db, "tags")),
        e \in Opt("ingredients", IdLists(db, "ingredients"))}

\* RecipeSerializer: title, time_minutes and price are required unless the
\* update is partial; tags and ingredients are lists of primary keys, each
\* resolved to an existing row.
RecipeSerializer_is_valid(db, data, partial) ==
    /\ partial \/ ScalarFields \subseteq DOMAIN data
    /\ \A k \in Kinds \cap DOMAIN data : data[k] \subseteq DOMAIN db.attrs[k]

\* An association field a full payload omits is validated as the empty list.
RecipeSerializer_validated_data(data, partial) ==
    IF partial
    THEN Only(data, RecipeSerializerFields)
    ELSE Only(data, RecipeSerializerFields) @@ [tags |-> {}, ingredients |-> {}]

\* A save that lets a user key of the payload win over request.user.
RecipeViewSet_perform_create_payload(serializer, user) ==
    (IF "user" \in DOMAIN serializer.initial_data
        THEN [user |-> serializer.initial_data["user"]]
        ELSE [user |-> user])
    @@ serializer.validated_data

\* serializer.save(user=self.request.user), as for the attributes.
RecipeViewSet_perform_create(serializer, user) ==
    [user |-> user] @@ serializer.validated_data

\* An update that adds to a many-to-many field instead of setting it.
perform_update_add(instance, validated_data) ==
    [f \in DOMAIN instance |->
        IF f \in DOMAIN validated_data
        THEN IF f \in Kinds THEN instance[f] \cup validated_data[f]
                            ELSE validated_data[f]
        ELSE instance[f]]

\* An update that assigns the scalar fields and leaves the many-to-many
\* fields as they were.
perform_update_skip_m2m(instance, validated_data) ==
    [f \in DOMAIN instance |->
        IF f \in DOMAIN validated_data /\ f \notin Kinds
        THEN validated_data[f]
        ELSE instance[f]]

\* serializer.save() on an instance: every validated field is assigned,
\* a many-to-many field with set().
perform_update(instance, validated_data) ==
    [f \in DOMAIN instance |->
        IF f \in DOMAIN validated_data THEN validated_data[f] ELSE instance[f]]

RecipeList(db, cred, query_params) ==
    LET user == authenticate(cred) IN
    IF ~IsAuthenticated(user)
    THEN Response(db, HTTP_401_UNAUTHORIZED, NoData)
    ELSE Response(db, HTTP_200_OK,
                  order_by_desc(RecipeViewSet_get_queryset(db, user, query_params),
                                db.recipes, "title"))

RecipeCreate(db, cred, data) ==
    LET user == authenticate(cred)
        pk == db.nextId["recipes"]
        serializer == [initial_data |-> data,
                       validated_data |-> RecipeSerializer_validated_data(data, FALSE)]
        row == RecipeViewSet_perform_create(serializer, user)
    IN
    IF ~IsAuthenticated(user)
    THEN Response(db, HTTP_401_UNAUTHORIZED, NoData)
    ELSE IF ~RecipeSerializer_is_valid(db, data, FALSE)
    THEN Response(db, HTTP_400_BAD_REQUEST, NoData)
    ELSE Response([db EXCEPT !.recipes = (pk :> row) @@ @,
                             !.nextId["recipes"] = @ + 1],
                  HTTP_201_CREATED, {<<pk>>})

RecipeRetrieve(db, cred, pk) ==
    LET user == authenticate(cred) IN
    IF ~IsAuthenticated(user)
    THEN Response(db, HTTP_401_UNAUTHORIZED, NoData)
    ELSE IF pk \notin RecipeViewSet_get_queryset(db, user, << >>)
    THEN Response(db, HTTP_404_NOT_FOUND, NoData)
    ELSE Response(db, HTTP_200_OK, {<<pk>>})

RecipeUpdate(db, cred, pk, data, partial) ==
    LET user == authenticate(cred) IN
    IF ~IsAuthenticated(user)
    THEN Response(db, HTTP_401_UNAUTHORIZED, NoData)
    ELSE IF pk \notin RecipeViewSet_get_queryset(db, user, << >>)
    THEN Response(db, HTTP_404_NOT_FOUND, NoData)
    ELSE IF ~RecipeSerializer_is_valid(db, data, partial)
    THEN Response(db, HTTP_400_BAD_REQUEST, NoData)
    ELSE Response([db EXCEPT !.recipes[pk] =
                        perform_update(@, RecipeSerializer_validated_data(data, partial))],
                  HTTP_200_OK, {<<pk>>})

RecipeDestroy(db, cred, pk) ==
    LET user == authenticate(cred) IN
    IF ~IsAuthenticated(user)
    THEN Response(db, HTTP_401_UNAUTHORIZED, NoData)
    ELSE IF pk \notin RecipeViewSet_get_queryset(db, user, << >>)
    THEN Response(db, HTTP_404_NOT_FOUND, NoData)
    ELSE Response([db EXCEPT !.recipes = Without(@, pk)],
                  HTTP_204_NO_CONTENT, NoData)

----------------------------------------------------------------------------
\* The state machine: one action per route of the two viewsets.

Init ==
    /\ attrs = [k \in Kinds |-> << >>]
    /\ recipes = << >>
    /\ nextId = [tags |-> 1, ingredients |-> 1, recipes |-> 1]
    /\ last = [action |-> "none", kind |-> "none", hidden |-> FALSE,
               cascaded |-> FALSE, status |-> 0]
    /\ users = << >>
    /\ returned = [call |-> "none"]

RowsCreated(db) ==
    (db.nextId["tags"] - 1) + (db.nextId["ingredients"] - 1) + (db.nextId["recipes"] - 1)

\* last.hidden: the detail URL named a row of the table and the response
\* was NotFound.  last.cascaded: the request deleted a Tag / Ingredient
\* that a Recipe referred to.
Handled(resp, action, kind, exists) ==
    /\ attrs' = resp.db.attrs
    /\ recipes' = resp.db.recipes
    /\ nextId' = resp.db.nextId
    /\ last' = [action |-> action, kind |-> kind,
                hidden |-> exists /\ resp.status = HTTP_404_NOT_FOUND,
                cascaded |-> kind \in Kinds /\ resp.db.recipes # recipes,
                status |-> resp.status]
    /\ UNCHANGED <<users, returned>>

\* The primary keys a detail URL may name: every row and one absent row.
AttrPks(db, kind) == DOMAIN db.attrs[kind] \cup {db.nextId[kind]}

RecipePks(db) == DOMAIN db.recipes \cup {db.nextId["recipes"]}

\* A request refused before its payload is read is sent with the empty
\* payload only.
AttrData(cred) ==
    IF IsAuthenticated(authenticate(cred)) THEN AttrPayloads ELSE {<< >>}

RecipeCreateData(db, cred) ==
    IF IsAuthenticated(authenticate(cred))
    THEN {d @@ o : d \in RecipePayloads(db), o \in Opt("user", Users)}
    ELSE {<< >>}

RecipeUpdateData(db, cred, pk) ==
    IF pk \in DOMAIN db.recipes /\ db.recipes[pk].user = authenticate(cred)
    THEN RecipePayloads(db)
    ELSE {<< >>}

ListAttrs ==
    \E cred \in Credentials, kind \in Kinds :
        Handled(AttrList(DB, cred, kind), "list", kind, FALSE)

CreateAttr ==
    /\ RowsCreated(DB) < MaxRows
    /\ \E cred \in Credentials, kind \in Kinds :
        \E data \in AttrData(cred) :
            Handled(AttrCreate(DB, cred, kind, data), "create", kind, FALSE)

DestroyAttr ==
    \E cred \in Credentials, kind \in Kinds :
        \E pk \in AttrPks(DB, kind) :
            Handled(AttrDestroy(DB, cred, kind, pk), "destroy", kind,
                    pk \in DOMAIN attrs[kind])

ListRecipes ==
    \E cred \in Credentials, query_params \in QueryParams(DB) :
        Handled(RecipeList(DB, cred, query_params), "list", "recipes", FALSE)

CreateRecipe ==
    /\ RowsCreated(DB) < MaxRows
    /\ \E cred \in Credentials :
        \E data \in RecipeCreateData(DB, cred) :
            Handled(RecipeCreate(DB, cred, data), "create", "recipes", FALSE)

RetrieveRecipe ==
    \E cred \in Credentials, pk \in RecipePks(DB) :
        Handled(RecipeRetrieve(DB, cred, pk), "retrieve", "recipes",
                pk \in DOMAIN recipes)

UpdateRecipe ==
    \E cred \in Credentials, pk \in RecipePks(DB) :
        \E data \in RecipeUpdateData(DB, cred, pk) :
            Handled(RecipeUpdate(DB, cred, pk, data, FALSE), "update", "recipes",
                    pk \in DOMAIN recipes)

PartialUpdateRecipe ==
    \E cred \in Credentials, pk \in RecipePks(DB) :
        \E data \in RecipeUpdateData(DB, cred, pk) :
            Handled(RecipeUpdate(DB, cred, pk, data, TRUE), "partial_update", "recipes",
                    pk \in DOMAIN recipes)

DestroyRecipe ==
    \E cred \in Credentials, pk \in RecipePks(DB) :
        Handled(RecipeDestroy(DB, cred, pk), "destroy", "recipes",
                pk \in DOMAIN recipes)

Next ==
    \/ ListAttrs
    \/ CreateAttr
    \/ DestroyAttr
    \/ ListRecipes
    \/ CreateRecipe
    \/ RetrieveRecipe
    \/ UpdateRecipe
    \/ PartialUpdateRecipe
    \/ DestroyRecipe

Spec == Init /\ [][Next]_vars

----------------------------------------------------------------------------
\* Every response a caller can get in the current state, whatever the
\* request.

ActiveCred(u) == [user |-> u, is_active |-> TRUE]

ForAllAttrResponses(db, cred, P(_)) ==
    \A kind \in Kinds :
        /\ P(AttrList(db, cred, kind))
        /\ \A data \in AttrPayloads : P(AttrCreate(db, cred, kind, data))
        /\ \A pk \in AttrPks(db, kind) : P(AttrDestroy(db, cred, kind, pk))

ForAllRecipeResponses(db, cred, P(_)) ==
    /\ \A q \in QueryParams(db) : P(RecipeList(db, cred, q))
    /\ \A d \in RecipePayloads(db) : P(RecipeCreate(db, cred, d))
    /\ \A pk \in RecipePks(db) :
         /\ P(RecipeRetrieve(db, cred, pk))
         /\ P(RecipeDestroy(db, cred, pk))
         /\ \A d \in RecipePayloads(db), partial \in BOOLEAN :
              P(RecipeUpdate(db, cred, pk, d, partial))

ForAllResponses(db, cred, P(_)) ==
    ForAllAttrResponses(db, cred, P) /\ ForAllRecipeResponses(db, cred, P)

\* What a user owns: the rows of the three tables, association sets included.
OwnedBy(db, u) ==
    [attrs |-> [k \in Kinds |->
                  [pk \in {p \in DOMAIN db.attrs[k] : db.attrs[k][p].user = u}
                      |-> db.attrs[k][pk]]],
     recipes |-> [pk \in {p \in DOMAIN db.recipes : db.recipes[p].user = u}
                      |-> db.recipes[pk]]]

OwnedAttrs(u, kind) == {pk \in DOMAIN attrs[kind] : attrs[kind][pk].user = u}

OwnedRecipes(u) == {pk \in DOMAIN recipes : recipes[pk].user = u}

----------------------------------------------------------------------------
C2_AssociationOwnership ==
    \A pk \in DOMAIN recipes : \A k \in Kinds : \A a \in recipes[pk][k] :
        a \in DOMAIN attrs[k] /\ attrs[k][a].user = recipes[pk].user

\* C3. Write isolation: no request of a caller changes what another user
\* owns (rows, fields, association sets of that user's recipes).
C3_WriteIsolation ==
    \A cred \in Credentials :
        LET OthersUntouched(resp) ==
                \A other \in Users \ {authenticate(cred)} :
                    OwnedBy(resp.db, other) = OwnedBy(DB, other)
        IN ForAllResponses(DB, cred, OthersUntouched)

\* C4. A retrieve, update or delete of a Recipe, or a delete of a Tag or
\* Ingredient, that names a row of another user is answered NotFound, as a
\* row that does not exist is, and changes nothing.
C4_NotFoundForForeignRows ==
    \A u \in Users :
        LET cred == ActiveCred(u)
            notFound == Response(DB, HTTP_404_NOT_FOUND, NoData)
        IN
        /\ \A pk \in (DOMAIN recipes \ OwnedRecipes(u)) \cup {nextId["recipes"]} :
             /\ RecipeRetrieve(DB, cred, pk) = notFound
             /\ RecipeDestroy(DB, cred, pk) = notFound
             /\ \A data \in RecipePayloads(DB), partial \in BOOLEAN :
                  RecipeUpdate(DB, cred, pk, data, partial) = notFound
        /\ \A kind \in Kinds :
             \A pk \in (DOMAIN attrs[kind] \ OwnedAttrs(u, kind)) \cup {nextId[kind]} :
                AttrDestroy(DB, cred, kind, pk) = notFound

\* An update that named an existing Recipe has been answered NotFound.
C4_Witness ==
    /\ last.action \in {"update", "partial_update"}
    /\ last.hidden
    /\ last.status = HTTP_404_NOT_FOUND

\* C5. Ownership stamping: a successful create adds exactly one row, owned
\* by the caller whatever owner the payload names; the caller's list shows
\* it and no other user's list does.
C5_OwnershipStamping ==
    \A u \in Users :
        /\ \A kind \in Kinds, data \in AttrPayloads :
             LET r == AttrCreate(DB, ActiveCred(u), kind, data)
                 new == DOMAIN r.db.attrs[kind] \ DOMAIN attrs[kind]
             IN
             r.status = HTTP_201_CREATED =>
                /\ Cardinality(new) = 1
                /\ \A pk \in new : r.db.attrs[kind][pk].user = u
                /\ \A pk \in DOMAIN attrs[kind] :
                     pk \in DOMAIN r.db.attrs[kind] /\ r.db.attrs[kind][pk] = attrs[kind][pk]
                /\ \A k \in Kinds \ {kind} : r.db.attrs[k] = attrs[k]
                /\ r.db.recipes = recipes
                /\ \A v \in Users : \A body \in AttrList(r.db, ActiveCred(v), kind).bodies :
                     (new \subseteq Range(body)) <=> (v = u)
        /\ \A d \in RecipePayloads(DB), o \in Opt("user", Users) :
             LET r == RecipeCreate(DB, ActiveCred(u), d @@ o)
                 new == DOMAIN r.db.recipes \ DOMAIN recipes
             IN
             r.status = HTTP_201_CREATED =>
                /\ Cardinality(new) = 1
                /\ \A pk \in new : r.db.recipes[pk].user = u
                /\ \A pk \in DOMAIN recipes :
                     pk \in DOMAIN r.db.recipes /\ r.db.recipes[pk] = recipes[pk]
                /\ r.db.attrs = attrs
                /\ \A v \in Users : \A body \in RecipeList(r.db, ActiveCred(v), << >>).bodies :
                     (new \subseteq Range(body)) <=> (v = u)

\* A create has been answered Created and each user owns a row of the
\* table, so one of the creates was this caller's.
C5_Witness ==
    /\ last.action = "create"
    /\ last.status = HTTP_201_CREATED
    /\ last.kind = "recipes"
    /\ \A u \in Users : OwnedRecipes(u) # {}

\* C6. A request without a present and active identity is answered
\* Unauthorized, with no entity data, and changes nothing.
C6_Unauthorized ==
    \A cred \in Credentials :
        ~(cred.user \in Users /\ cred.is_active)
            => LET Refused(resp) == resp = Response(DB, HTTP_401_UNAUTHORIZED, NoData)
               IN ForAllResponses(DB, cred, Refused)

\* A request has been answered Unauthorized while the store holds rows.
C6_Witness ==
    /\ last.status = HTTP_401_UNAUTHORIZED
    /\ DOMAIN recipes # {}
    /\ \E k \in Kinds : DOMAIN attrs[k] # {}

\* C7. Creating a Tag or an Ingredient with an empty name is answered
\* ValidationError and leaves the store as it was.
C7_EmptyNameRejected ==
    \A u \in Users, kind \in Kinds, data \in AttrPayloads :
        ("name" \in DOMAIN data /\ data["name"] = "")
            => AttrCreate(DB, ActiveCred(u), kind, data)
                  = Response(DB, HTTP_400_BAD_REQUEST, NoData)

\* A create of a Tag or Ingredient has been refused while the table holds
\* a row.
C7_Witness ==
    /\ last.action = "create"
    /\ last.kind \in Kinds
    /\ last.status = HTTP_400_BAD_REQUEST
    /\ DOMAIN attrs[last.kind] # {}

\* C8. Partial update of an owned Recipe: a field the payload supplies
\* takes the supplied value (a tag or ingredient set is replaced, never
\* merged), and every field the payload omits keeps its value.
C8_PartialUpdate ==
    \A u \in Users : \A pk \in OwnedRecipes(u) : \A data \in RecipePayloads(DB) :
        LET r == RecipeUpdate(DB, ActiveCred(u), pk, data, TRUE) IN
        /\ r.status \in {HTTP_200_OK, HTTP_400_BAD_REQUEST}
        /\ r.status = HTTP_200_OK =>
             /\ DOMAIN r.db.recipes = DOMAIN recipes
             /\ \A f \in DOMAIN recipes[pk] :
                  r.db.recipes[pk][f] = IF f \in DOMAIN data THEN data[f] ELSE recipes[pk][f]
             /\ \A p \in DOMAIN recipes \ {pk} : r.db.recipes[p] = recipes[p]
             /\ r.db.attrs = attrs

\* A partial update has succeeded on a store where a Recipe is left without
\* tags although a Tag exists.
C8_Witness ==
    /\ last.action = "partial_update"
    /\ last.status = HTTP_200_OK
    /\ DOMAIN attrs["tags"] # {}
    /\ \E pk \in DOMAIN recipes : recipes[pk].tags = {} /\ recipes[pk].price = 8

\* C9. Full update of an owned Recipe: without title, time_minutes and
\* price all supplied it is answered ValidationError and changes nothing;
\* on success the scalar fields are the supplied ones, a supplied
\* association set replaces the old one and an omitted one becomes empty.
C9_FullUpdate ==
    \A u \in Users : \A pk \in OwnedRecipes(u) : \A data \in RecipePayloads(DB) :
        LET r == RecipeUpdate(DB, ActiveCred(u), pk, data, FALSE) IN
        /\ r.status \in {HTTP_200_OK, HTTP_400_BAD_REQUEST}
        /\ ~(ScalarFields \subseteq DOMAIN data)
             => r = Response(DB, HTTP_400_BAD_REQUEST, NoData)
        /\ r.status = HTTP_400_BAD_REQUEST => r.db = DB
        /\ r.status = HTTP_200_OK =>
             /\ DOMAIN r.db.recipes = DOMAIN recipes
             /\ \A f \in ScalarFields : r.db.recipes[pk][f] = data[f]
             /\ \A k \in Kinds :
                  r.db.recipes[pk][k] = IF k \in DOMAIN data THEN data[k] ELSE {}
             /\ r.db.recipes[pk].user = u
             /\ \A p \in DOMAIN recipes \ {pk} : r.db.recipes[p] = recipes[p]
             /\ r.db.attrs = attrs

\* A full update has succeeded.
C9_Witness ==
    /\ last.action = "update"
    /\ last.status = HTTP_200_OK
    /\ DOMAIN attrs["tags"] # {}
    /\ \E pk \in DOMAIN recipes : recipes[pk].tags = {}

\* C10. A Recipe list with a tags and / or ingredients filter returns
\* exactly the caller's recipes that have, for each filter given, at least
\* one of the listed ids.
MatchesFilters(row, query_params) ==
    \A k \in Kinds \cap DOMAIN query_params : row[k] \cap query_params[k] # {}

C10_FilteredList ==
    \A u \in Users : \A q \in QueryParams(DB) :
        \A body \in RecipeList(DB, ActiveCred(u), q).bodies :
            Range(body) = {pk \in OwnedRecipes(u) : MatchesFilters(recipes[pk], q)}

\* C11. Deleting an owned Tag or Ingredient removes its row and its id from
\* the association set of every Recipe that referred to it, and nothing
\* else: no Recipe is deleted, every other field and association of every
\* Recipe and every other Tag / Ingredient row is as before; and no Recipe
\* of the store refers to an id that has no row.
C11_DeleteCascade ==
    /\ \A pk \in DOMAIN recipes : \A k \in Kinds : recipes[pk][k] \subseteq DOMAIN attrs[k]
    /\ \A u \in Users, kind \in Kinds : \A pk \in OwnedAttrs(u, kind) :
         LET r == AttrDestroy(DB, ActiveCred(u), kind, pk) IN
         /\ r.status = HTTP_204_NO_CONTENT
         /\ r.db.attrs = [attrs EXCEPT ![kind] = Without(@, pk)]
         /\ DOMAIN r.db.recipes = DOMAIN recipes
         /\ \A rpk \in DOMAIN recipes :
              /\ r.db.recipes[rpk][kind] = recipes[rpk][kind] \ {pk}
              /\ \A f \in DOMAIN recipes[rpk] \ {kind} :
                   r.db.recipes[rpk][f] = recipes[rpk][f]

C11_Witness ==
    /\ last.action = "destroy"
    /\ last.kind \in Kinds
    /\ last.status = HTTP_204_NO_CONTENT
    /\ last.cascaded
    /\ DOMAIN recipes # {}

----------------------------------------------------------------------------
\* core/models.py: User and UserManager.

\* Rows of User ever inserted (its AutoField counter is unbounded).
MaxUsers == 2

None == "None"

\* A str is the sequence of its characters.  The alphabet: four letters in
\* both cases, "@" and ".".
LowerCase == [A |-> "a", B |-> "b", C |-> "c", O |-> "o"]

Letters == DOMAIN LowerCase \cup {LowerCase[ch] : ch \in DOMAIN LowerCase}

\* str.lower()
str_lower(s) ==
    [i \in 1..Len(s) |-> IF s[i] \in DOMAIN LowerCase THEN LowerCase[s[i]] ELSE s[i]]

Positions(s, ch) == {i \in 1..Len(s) : s[i] = ch}

MaxOf(S) == CHOOSE i \in S : \A j \in S : j <= i

\* s.rsplit(ch, 1), for an s that holds ch
str_rsplit(s, ch) ==
    LET i == MaxOf(Positions(s, ch)) IN
    <<SubSeq(s, 1, i - 1), SubSeq(s, i + 1, Len(s))>>

\* EmailValidator.user_regex, dot-atom form: atoms of letters separated by
\* single dots.
user_regex(s) ==
    /\ s # << >>
    /\ \A i \in 1..Len(s) : s[i] \in Letters \cup {"."}
    /\ s[1] # "." /\ s[Len(s)] # "."
    /\ \A i \in 1..(Len(s) - 1) : ~(s[i] = "." /\ s[i + 1] = ".")

\* EmailValidator.domain_regex: one or more labels, each followed by a dot,
\* then a top-level domain of at least two letters.
domain_regex(s) ==
    /\ user_regex(s)
    /\ Positions(s, ".") # {}
    /\ Len(s) - MaxOf(Positions(s, ".")) >= 2

\* django.core.validators.validate_email: TRUE when it returns, FALSE when
\* it raises ValidationError.
validate_email(value) ==
    /\ value # << >>
    /\ Positions(value, "@") # {}
    /\ user_regex(str_rsplit(value, "@")[1])
    /\ domain_regex(str_rsplit(value, "@")[2])

\* A validateEmail that accepts every address.
validateEmail_accept(email) == TRUE

\* validateEmail: True when validate_email returns, False when it raises.

validateEmail(email) == validate_email(email)

\* BaseUserManager.normalize_email: the part after the last "@" is
\* lower-cased, the part before it is kept.
normalize_email(email) ==
    IF Positions(email, "@") = {} THEN email
    ELSE str_rsplit(email, "@")[1] \o <<"@">> \o str_lower(str_rsplit(email, "@")[2])

\* AbstractBaseUser.set_password: the hash of the raw password, or an
\* unusable password for None.
make_password(password) ==
    IF password = None THEN [unusable |-> "!"] ELSE [pbkdf2_sha256 |-> password]

\* The fields of User and the defaults of those the caller leaves out.
UserDefaults ==
    [name |-> "", is_active |-> TRUE, is_staff |-> FALSE, is_superuser |-> FALSE]

Outcome(table, raised, user) == [users |-> table, raised |-> raised, user |-> user]

\* Model.save(): an INSERT for an object without primary key, else an
\* UPDATE; email is unique=True, compared as stored.
Model_save(table, user) ==
    LET others == IF "pk" \in DOMAIN user
                  THEN (1..Len(table)) \ {user.pk} ELSE 1..Len(table) IN
    IF \E i \in others : table[i].email = user.email
    THEN Outcome(table, "IntegrityError", user)
    ELSE IF "pk" \notin DOMAIN user
    THEN LET row == [pk |-> Len(table) + 1] @@ user IN
         Outcome(Append(table, row), "none", row)
    ELSE Outcome([table EXCEPT ![user.pk] = user], "none", user)

\* UserManager.create_user
create_user(table, email, password, extra_fields) ==
    IF email = << >> \/ validateEmail(email) = FALSE
    THEN Outcome(table, "ValueError", << >>)
    ELSE LET user == [email |-> normalize_email(email)] @@ extra_fields @@ UserDefaults IN
         Model_save(table, [password |-> make_password(password)] @@ user)

\* A create_superuser that returns without its second save.
create_superuser_unsaved(table, email, password) ==
    LET made == create_user(table, email, password, << >>) IN
    IF made.raised # "none" THEN made
    ELSE Outcome(made.users, "none",
                 [made.user EXCEPT !.is_staff = TRUE, !.is_superuser = TRUE])

\* UserManager.create_superuser
create_superuser(table, email, password) ==
    LET made == create_user(table, email, password, << >>) IN
    IF made.raised # "none" THEN made
    ELSE Model_save(made.users,
                    [made.user EXCEPT !.is_staff = TRUE, !.is_superuser = TRUE])

\* The arguments of the calls.
Emails ==
    {<< >>,
     <<"a", "b", "c">>,
     <<"a", "@", "b">>,
     <<"@", "b", ".", "c", "o">>,
     <<"a", "@", "b", ".", "c", "o">>,
     <<"a", "@", "B", ".", "C", "O">>,
     <<"A", "@", "b", ".", "c", "o">>,
     <<"A", "@", "B", ".", "C", "O">>,
     <<"c", "@", "b", ".", "c", "o">>}

Passwords == {None, "pwd123"}

ExtraFields == {<< >>, [name |-> "Test name"], [is_active |-> FALSE]}

Called(outcome, call, email) ==
    /\ Len(outcome.users) <= MaxUsers
    /\ users' = outcome.users
    /\ returned' = [call |-> call, email |-> email, raised |-> outcome.raised,
                    pk |-> IF outcome.raised = "none" THEN outcome.user.pk ELSE 0]
    /\ UNCHANGED <<attrs, recipes, nextId, last>>

CreateUser ==
    \E email \in Emails, password \in Passwords, extra_fields \in ExtraFields :
        Called(create_user(users, email, password, extra_fields), "create_user", email)

CreateSuperuser ==
    \E email \in Emails, password \in Passwords :
        Called(create_superuser(users, email, password), "create_superuser", email)

UserNext ==
    \/ CreateUser
    \/ CreateSuperuser

UserSpec == Init /\ [][UserNext]_vars

----------------------------------------------------------------------------
\* Every outcome a call of create_user or create_superuser can have in the
\* current state.

SameLetters(e1, e2) == str_lower(e1) = str_lower(e2)

\* C12. create_user stores the email lower-cased, local part and domain
\* alike: the row a successful call has just inserted holds the argument
\* with every character lower-cased.
C12_StoredLowerCased ==
    (returned.call = "create_user" /\ returned.raised = "none")
        => users[returned.pk].email = str_lower(returned.email)

\* C13. create_user and create_superuser with an empty email, or one that
\* is not a valid address, raise the validation error and leave the User
\* table as it was.
C13_InvalidEmailRejected ==
    \A email \in Emails :
        (email = << >> \/ ~validate_email(email)) =>
            \A password \in Passwords :
                /\ \A extra_fields \in ExtraFields :
                     LET r == create_user(users, email, password, extra_fields) IN
                     r.raised = "ValueError" /\ r.users = users
                /\ LET r == create_superuser(users, email, password) IN
                     r.raised = "ValueError" /\ r.users = users

C13_Witness ==
    /\ returned.call = "create_superuser"
    /\ returned.raised = "ValueError"
    /\ returned.email = <<"a", "b", "c">>
    /\ users # << >>

\* C14. No two rows of User have emails that are equal up to letter case,
\* and a create whose email equals a stored one up to letter case fails
\* and adds no row.
C14_EmailUniqueness ==
    /\ \A i, j \in 1..Len(users) :
         i # j => ~SameLetters(users[i].email, users[j].email)
    /\ \A email \in Emails, password \in Passwords :
         (\E i \in 1..Len(users) : SameLetters(users[i].email, email)) =>
             /\ \A extra_fields \in ExtraFields :
                  LET r == create_user(users, email, password, extra_fields) IN
                  r.raised # "none" /\ r.users = users
             /\ LET r == create_superuser(users, email, password) IN
                  r.raised # "none" /\ r.users = users

\* C15. The row create_user inserts when given no extra fields is active,
\* not staff and not superuser; create_superuser succeeds where create_user
\* would, and the row it leaves in the table is staff and superuser, with
\* the email and the password create_user stores, and is the user it
\* returns.
C15_PrivilegeFlags ==
    \A email \in Emails, password \in Passwords :
        LET made == create_user(users, email, password, << >>)
            super == create_superuser(users, email, password)
        IN
        /\ made.raised = "none" =>
             LET row == made.users[made.user.pk] IN
             /\ made.users = Append(users, row)
             /\ row.is_active /\ ~row.is_staff /\ ~row.is_superuser
        /\ super.raised = made.raised
        /\ super.raised = "none" =>
             LET row == super.users[super.user.pk] IN
             /\ super.users = Append(users, row)
             /\ row.is_active /\ row.is_staff /\ row.is_superuser
             /\ row.email = made.user.email
             /\ row.password = made.user.password
             /\ super.user = row

C15_Witness ==
    /\ returned.call = "create_superuser"
    /\ returned.raised = "none"
    /\ users[returned.pk].is_staff /\ users[returned.pk].is_superuser
    /\ \E i \in 1..Len(users) : users[i].is_active /\ ~users[i].is_staff

====
